---- MODULE Spec2Model ----
(***************************************************************************)
(* Model of the conversation-to-diagram backend:                           *)
(*   backend/api/services/conversation_service.py  (ConversationService)   *)
(*   backend/api/services/diagram_service.py       (DiagramService)        *)
(*   backend/ai/conversation_analyzer.py           (ConversationAnalyzer)  *)
(*   backend/ai/diagram_modifier.py                (DiagramModifier)       *)
(*   backend/diagram_generator/plantuml.py, drawio.py (generators)         *)
(*   backend/api/routes/messages.py, diagrams.py   (HTTP handlers)         *)
(*                                                                         *)
(* Database tables are sequences of rows; a row's id is its index.         *)
(* Python None is the string "None" for text columns and 0 for integer     *)
(* ids (the code tests both with truthiness).  Confidence scores are       *)
(* integers in hundredths (0.7 is 70).  Timestamps are minutes.            *)
(*                                                                         *)
(* Texts.  A PlantUML text is a sequence of lines, each a record with a    *)
(* field k.  A Draw.io text is a sequence of markup tokens; an attribute   *)
(* value is a record whose "text" kind carries a sequence of characters.   *)
(***************************************************************************)
EXTENDS Integers, Sequences, FiniteSets, TLC

VARIABLES
    conversations,  \* table conversations: rows [platform, channel_id, thread_id]
    messages,       \* table messages
    diagrams,       \* table diagrams
    modifications,  \* table modifications
    now,            \* the clock, in minutes
    call,           \* call[c]: where caller c's request stands
    proc,           \* proc[c]: the server process that serves caller c
    lastOp,         \* the last completed operation and what it returned
    arch,           \* SpecGen: the ArchitectureExtraction at hand
    gen             \* SpecGen: the last generator call and its result

vars == <<conversations, messages, diagrams, modifications, now, call, proc,
          lastOp, arch, gen>>

None == "None"

----------------------------------------------------------------------------
(* Generic sequence helpers (Python list idioms).                          *)

\* lines[1:-1]
Slice1m1(s) == IF Len(s) <= 2 THEN <<>> ELSE SubSeq(s, 2, Len(s) - 1)

\* All sequences over S of length at most n.
RECURSIVE SeqsUpTo(_, _)
SeqsUpTo(S, n) ==
    IF n = 0 THEN {<<>>}
    ELSE LET shorter == SeqsUpTo(S, n - 1)
         IN  shorter \cup {Append(s, x) : s \in {t \in shorter : Len(t) = n - 1}, x \in S}

----------------------------------------------------------------------------
(* ArchitectureExtraction inputs (schemas.py).                             *)

MaxComponents == 4
MaxRelationships == 1

\* Component names as character sequences.  "ctl" stands for a control
\* character such as U+0001, which a JSON string escape can carry.
NameA   == <<"A">>
NameDB  == <<"D", " ", "B">>
NameMk  == <<"<", "&", "\"">>
NameCtl == <<"Q", "ctl">>
NameCache == <<"C">>

ComponentPool ==
    { [type |-> "service",  name |-> NameA,   technologies |-> <<>>],
      [type |-> "database", name |-> NameDB,  technologies |-> <<"postgres">>],
      [type |-> "queue",    name |-> NameMk,  technologies |-> <<"kafka", "zk">>],
      [type |-> "gateway",  name |-> NameCtl, technologies |-> <<>>] }

\* A label that is None or "" (both falsy in the code's tests).
NoLabel == <<>>

RelationshipPool ==
    { [source |-> NameA, target |-> NameDB, relationship_type |-> "storage", label |-> NoLabel],
      [source |-> NameA, target |-> NameCache, relationship_type |-> "api_call", label |-> NameMk],
      [source |-> NameCtl, target |-> NameA, relationship_type |-> "data_flow", label |-> NameA] }

ArchitectureExtraction(comps, rels, ctx) ==
    [components |-> comps, relationships |-> rels, context |-> ctx]

Extractions ==
    { ArchitectureExtraction(cs, rs, <<"ctx">>) :
        cs \in SeqsUpTo(ComponentPool, MaxComponents),
        rs \in SeqsUpTo(RelationshipPool, MaxRelationships) }

EmptyExtraction == ArchitectureExtraction(<<>>, <<>>, <<"ctx">>)

----------------------------------------------------------------------------
(* PlantUML texts and PlantUMLGenerator (plantuml.py).                     *)

LStart == [k |-> "start"]        \* the line "@startuml"
LEnd   == [k |-> "end"]          \* the line "@enduml"
LBlank == [k |-> "blank"]        \* an empty line
LFence == [k |-> "fence"]        \* a line that starts with ```
LSkin  == [k |-> "skin"]         \* "skinparam componentStyle rectangle"
LBody(v) == [k |-> "body", v |-> v]

\* str.replace(" ", "_")
replace_space(s) == [i \in 1..Len(s) |-> IF s[i] = " " THEN "_" ELSE s[i]]

\* The empty string "" is the text of one empty line ("".split("\n") == [""]).
EmptyText == <<LBlank>>

\* str.strip() on a text: leading and trailing blank lines go.
RECURSIVE lstrip(_)
lstrip(t) == IF t # <<>> /\ Head(t) = LBlank THEN lstrip(Tail(t)) ELSE t
RECURSIVE rstrip(_)
rstrip(t) == IF t # <<>> /\ t[Len(t)] = LBlank THEN rstrip(SubSeq(t, 1, Len(t) - 1)) ELSE t
strip(t) == LET r == rstrip(lstrip(t)) IN IF r = <<>> THEN EmptyText ELSE r

\* code.startswith("```")
startswith_fence(t) == Head(t).k = "fence"

\* "\n".join(code.split("\n")[1:-1])
strip_code_block(t) == IF Slice1m1(t) = <<>> THEN EmptyText ELSE Slice1m1(t)

\* plantuml.py 152-161: one line per component
plantuml_component_line(comp) ==
    [k        |-> "comp",
     keyword  |-> IF comp.type = "database" THEN "database"
                  ELSE IF comp.type = "queue" THEN "queue" ELSE "component",
     name     |-> comp.name,
     alias    |-> replace_space(comp.name),
     tech     |-> IF comp.technologies # <<>> THEN comp.technologies[1] ELSE None]

\* plantuml.py 165-170: one line per relationship, resolved or not
plantuml_relationship_line(rel) ==
    [k      |-> "rel",
     source |-> replace_space(rel.source),
     target |-> replace_space(rel.target),
     label  |-> rel.label]

PlantUML_generate_fallback_diagram(architecture) ==
    <<LStart, LSkin, LBlank>>
    \o [i \in 1..Len(architecture.components) |->
            plantuml_component_line(architecture.components[i])]
    \o <<LBlank>>
    \o [i \in 1..Len(architecture.relationships) |->
            plantuml_relationship_line(architecture.relationships[i])]
    \o <<LEnd>>

\* "@startuml" in code / "@enduml" in code
contains_line(code, l) == \E i \in 1..Len(code) : code[i] = l

validate_plantuml(code) ==
    IF strip(code) = EmptyText THEN FALSE
    ELSE IF ~contains_line(code, LStart) \/ ~contains_line(code, LEnd) THEN FALSE
    ELSE TRUE

----------------------------------------------------------------------------
(* Draw.io markup and DrawioGenerator (drawio.py).                         *)

x_offset == 100
y_offset == 100
width    == 120
height   == 60
spacing  == 200
GridColumns == 3

Lit(s)  == [kind |-> "lit", s |-> s]          \* a fixed attribute value
Num(n)  == [kind |-> "num", n |-> n]          \* str(n)
Txt(cs) == [kind |-> "text", chars |-> cs]    \* a value built from input text

Open(tag, attrs)  == [k |-> "open",  tag |-> tag, attrs |-> attrs]
Empty(tag, attrs) == [k |-> "empty", tag |-> tag, attrs |-> attrs]
Close(tag)        == [k |-> "close", tag |-> tag, attrs |-> <<>>]

\* f"comp_{idx + 2}" for the 0-based idx; i is the 1-based position
cell_id(i) == [kind |-> "id", prefix |-> "comp_", n |-> (i - 1) + 2]

\* component_map[comp.name] = cell_id: a later component of the same name
\* overwrites the entry of an earlier one
component_map_has(components, name) ==
    \E i \in 1..Len(components) : components[i].name = name

component_map(components, name) ==
    LET last == CHOOSE i \in 1..Len(components) :
                    /\ components[i].name = name
                    /\ \A j \in (i + 1)..Len(components) : components[j].name # name
    IN  cell_id(last)

drawio_style(comp) ==
    IF comp.type = "database" THEN "cylinder3"
    ELSE IF comp.type = "queue" THEN "hexagon"
    ELSE "rounded"

\* A faulty layout: every component in the first row.
grid_row_flat(i) == 0

grid_row(i) == (i - 1) \div GridColumns
grid_col(i) == (i - 1) % GridColumns
grid_x(i) == x_offset + (grid_col(i) * spacing)
grid_y(i) == y_offset + (grid_row(i) * spacing)

\* drawio.py 184-216: the vertex cell of the component at 1-based position i
drawio_component_cell(components, i) ==
    << Open("mxCell", << <<"id", cell_id(i)>>,
                         <<"value", Txt(components[i].name)>>,
                         <<"style", Lit(drawio_style(components[i]))>>,
                         <<"vertex", Lit("1")>>,
                         <<"parent", Lit("1")>> >>),
       Empty("mxGeometry", << <<"x", Num(grid_x(i))>>,
                              <<"y", Num(grid_y(i))>>,
                              <<"width", Num(width)>>,
                              <<"height", Num(height)>>,
                              <<"as", Lit("geometry")>> >>),
       Close("mxCell") >>

\* drawio.py 222-235: the edge cell of a resolved relationship
drawio_edge_cell(components, rel, edge_id) ==
    << Open("mxCell", << <<"id", [kind |-> "id", prefix |-> "edge_", n |-> edge_id]>>,
                         <<"value", IF rel.label # NoLabel THEN Txt(rel.label)
                                    ELSE Lit(rel.relationship_type)>>,
                         <<"style", Lit("edgeStyle")>>,
                         <<"edge", Lit("1")>>,
                         <<"parent", Lit("1")>>,
                         <<"source", component_map(components, rel.source)>>,
                         <<"target", component_map(components, rel.target)>> >>),
       Empty("mxGeometry", << <<"relative", Lit("1")>>, <<"as", Lit("geometry")>> >>),
       Close("mxCell") >>

RECURSIVE drawio_component_cells(_, _)
drawio_component_cells(components, i) ==
    IF i > Len(components) THEN <<>>
    ELSE drawio_component_cell(components, i) \o drawio_component_cells(components, i + 1)

\* drawio.py 219-237: edge_id starts at len(components) + 2 and grows with
\* every edge that is emitted
RECURSIVE drawio_edge_cells(_, _, _)
drawio_edge_cells(components, rels, edge_id) ==
    IF rels = <<>> THEN <<>>
    ELSE LET rel == Head(rels)
         IN  IF component_map_has(components, rel.source)
                /\ component_map_has(components, rel.target)
             THEN drawio_edge_cell(components, rel, edge_id)
                  \o drawio_edge_cells(components, Tail(rels), edge_id + 1)
             ELSE drawio_edge_cells(components, Tail(rels), edge_id)

\* drawio.py 158-237: the element tree, in document order
drawio_fallback_tree(architecture) ==
    << Open("mxfile", << <<"host", Lit("app.diagrams.net")>> >>),
       Open("diagram", << <<"name", Lit("Architecture")>>, <<"id", Lit("diagram1")>> >>),
       Open("mxGraphModel", << <<"grid", Lit("1")>> >>),
       Open("root", <<>>),
       Empty("mxCell", << <<"id", Lit("0")>> >>),
       Empty("mxCell", << <<"id", Lit("1")>>, <<"parent", Lit("0")>> >>) >>
    \o drawio_component_cells(architecture.components, 1)
    \o drawio_edge_cells(architecture.components, architecture.relationships,
                         Len(architecture.components) + 2)
    \o << Close("root"), Close("mxGraphModel"), Close("diagram"), Close("mxfile") >>

\* ET.tostring escapes attribute values: & < > " become entities (as do
\* newline, return and tab); every other character is written as it is.
escape_attrib_char(ch) ==
    CASE ch = "&"  -> "&amp;"
      [] ch = "<"  -> "&lt;"
      [] ch = ">"  -> "&gt;"
      [] ch = "\"" -> "&quot;"
      [] OTHER     -> ch

escape_attrib(v) ==
    IF v.kind = "text"
    THEN Txt([i \in 1..Len(v.chars) |-> escape_attrib_char(v.chars[i])])
    ELSE v

tostring(tree) ==
    [i \in 1..Len(tree) |->
        [tree[i] EXCEPT !.attrs =
            [j \in 1..Len(tree[i].attrs) |->
                <<tree[i].attrs[j][1], escape_attrib(tree[i].attrs[j][2])>>]]]

\* drawio.py 142-240
Drawio_generate_fallback_diagram(architecture) ==
    tostring(drawio_fallback_tree(architecture))

\* What the parser refuses inside a quoted attribute value: markup
\* characters left raw, and characters XML 1.0 does not allow at all.
IllFormedChars == {"<", "&", "\"", "ctl"}

attrs_parse(attrs) ==
    \A j \in 1..Len(attrs) :
        attrs[j][2].kind = "text" =>
            \A n \in 1..Len(attrs[j][2].chars) : attrs[j][2].chars[n] \notin IllFormedChars

\* ET.fromstring: one root element, tags closed in order, values parseable.
\* stack is the sequence of open tags; closed says the root has been closed.
RECURSIVE fromstring_ok(_, _, _)
fromstring_ok(tokens, stack, closed) ==
    IF tokens = <<>> THEN stack = <<>> /\ closed
    ELSE LET t == Head(tokens)
         IN  CASE t.k = "open" ->
                    /\ ~closed
                    /\ attrs_parse(t.attrs)
                    /\ fromstring_ok(Tail(tokens), Append(stack, t.tag), FALSE)
               [] t.k = "empty" ->
                    /\ ~closed
                    /\ attrs_parse(t.attrs)
                    /\ fromstring_ok(Tail(tokens), stack, stack = <<>>)
               [] t.k = "close" ->
                    /\ stack # <<>>
                    /\ stack[Len(stack)] = t.tag
                    /\ fromstring_ok(Tail(tokens), SubSeq(stack, 1, Len(stack) - 1),
                                     Len(stack) = 1)
               [] t.k = "blank" ->
                    fromstring_ok(Tail(tokens), stack, closed)
               [] t.k = "body" ->
                    /\ stack # <<>>
                    /\ fromstring_ok(Tail(tokens), stack, closed)
               [] OTHER -> FALSE

\* drawio.py 242-256
validate_drawio_xml(xml_str) == fromstring_ok(xml_str, <<>>, FALSE)

----------------------------------------------------------------------------
(* The Language Model capability.  A call either raises (an error of the   *)
(* provider or a timeout) or returns a text.                               *)

LLMRaise(err) == [kind |-> "raise", error |-> err]
LLMText(t)    == [kind |-> "text", content |-> t]

\* A faulty PlantUMLGenerator.generate: a response that lacks a marker is
\* rejected in favour of the fallback.
PlantUML_generate_strict(architecture, llm) ==
    IF llm.kind = "raise" THEN PlantUML_generate_fallback_diagram(architecture)
    ELSE LET stripped == strip(llm.content)
             unfenced == IF startswith_fence(stripped)
                         THEN strip_code_block(stripped) ELSE stripped
         IN  IF Head(unfenced) # LStart \/ strip(unfenced)[Len(strip(unfenced))] # LEnd
             THEN PlantUML_generate_fallback_diagram(architecture)
             ELSE unfenced

\* plantuml.py 105-143: PlantUMLGenerator.generate
PlantUML_generate(architecture, llm) ==
    IF llm.kind = "raise" THEN PlantUML_generate_fallback_diagram(architecture)
    ELSE LET stripped == strip(llm.content)
             unfenced == IF startswith_fence(stripped)
                         THEN strip_code_block(stripped) ELSE stripped
             started  == IF Head(unfenced) # LStart
                         THEN <<LStart>> \o unfenced ELSE unfenced
             last     == strip(started)[Len(strip(started))]
         IN  IF last # LEnd THEN started \o <<LEnd>> ELSE started

\* drawio.py 104-140: DrawioGenerator.generate
Drawio_generate(architecture, llm) ==
    IF llm.kind = "raise" THEN Drawio_generate_fallback_diagram(architecture)
    ELSE LET stripped == strip(llm.content)
             unfenced == IF startswith_fence(stripped)
                         THEN strip_code_block(stripped) ELSE stripped
         IN  IF ~validate_drawio_xml(unfenced)
             THEN Drawio_generate_fallback_diagram(architecture)
             ELSE unfenced

\* A faulty modify_plantuml: on failure it hands back no code at all.
modify_plantuml_dropping_code(current_code, modification_request, llm) ==
    IF llm.kind = "raise"
    THEN [success |-> FALSE, code |-> <<>>, error |-> llm.error]
    ELSE LET stripped == strip(llm.content)
         IN  [success |-> TRUE,
              code |-> IF startswith_fence(stripped)
                       THEN strip_code_block(stripped) ELSE stripped,
              error |-> None]

\* diagram_modifier.py 92-133: DiagramModifier.modify_plantuml
modify_plantuml(current_code, modification_request, llm) ==
    IF llm.kind = "raise"
    THEN [success |-> FALSE, code |-> current_code, error |-> llm.error]
    ELSE LET stripped == strip(llm.content)
         IN  [success |-> TRUE,
              code |-> IF startswith_fence(stripped)
                       THEN strip_code_block(stripped) ELSE stripped,
              error |-> None]

\* A faulty modify_drawio: it swallows the error and reports success.
modify_drawio_reporting_success(current_xml, modification_request, llm) ==
    IF llm.kind = "raise"
    THEN [success |-> TRUE, xml |-> current_xml, error |-> None]
    ELSE LET stripped == strip(llm.content)
         IN  [success |-> TRUE,
              xml |-> IF startswith_fence(stripped)
                      THEN strip_code_block(stripped) ELSE stripped,
              error |-> None]

\* diagram_modifier.py 135-176: DiagramModifier.modify_drawio
modify_drawio(current_xml, modification_request, llm) ==
    IF llm.kind = "raise"
    THEN [success |-> FALSE, xml |-> current_xml, error |-> llm.error]
    ELSE LET stripped == strip(llm.content)
         IN  [success |-> TRUE,
              xml |-> IF startswith_fence(stripped)
                      THEN strip_code_block(stripped) ELSE stripped,
              error |-> None]

----------------------------------------------------------------------------
(* ConversationAnalyzer (conversation_analyzer.py).                        *)

\* What the classification call can come back with.  A JSON object is a
\* record that has the keys the reply has.
LLMNonJson(err)   == [kind |-> "non_json", error |-> err]     \* json.loads raises
LLMNonObject(err) == [kind |-> "non_object", error |-> err]   \* result.get raises
LLMBadTypes(err)  == [kind |-> "bad_types", error |-> err]    \* TechnicalAnalysis(...) raises
LLMObject(result) == [kind |-> "object", result |-> result]

ErrorKinds == {"raise", "non_json", "non_object", "bad_types"}

\* dict.get(key, default)
get(result, key, default) == IF key \in DOMAIN result THEN result[key] ELSE default

\* A Python string as the sequence of its parts; it is empty when every part is.
str_nonempty(parts) == \E i \in 1..Len(parts) : parts[i] # ""

TechnicalAnalysis(t, s, r) ==
    [is_technical |-> t, confidence_score |-> s, reasoning |-> r, raised |-> FALSE]

\* A faulty analyze_message: on an error it returns the defaults of the
\* happy path, with no diagnostic.
analyze_message_unexplained(message, context, llm) ==
    IF llm.kind \in ErrorKinds
    THEN TechnicalAnalysis(FALSE, 0, <<"">>)
    ELSE TechnicalAnalysis(get(llm.result, "is_technical", FALSE),
                           get(llm.result, "confidence_score", 0),
                           <<get(llm.result, "reasoning", "")>>)

\* conversation_analyzer.py 133-158: analyze_message
analyze_message(message, context, llm) ==
    IF llm.kind \in ErrorKinds
    THEN TechnicalAnalysis(FALSE, 0, <<"Error during analysis: ", llm.error>>)
    ELSE TechnicalAnalysis(get(llm.result, "is_technical", FALSE),
                           get(llm.result, "confidence_score", 0),
                           <<get(llm.result, "reasoning", "")>>)

\* A faulty extract_architecture: on an error it invents a component.
extract_architecture_placeholder(msgs, llm) ==
    IF llm.kind \in ErrorKinds
    THEN ArchitectureExtraction(
            <<[type |-> "service", name |-> <<"unknown">>, technologies |-> <<>>]>>,
            <<>>, <<"Error during extraction: ", llm.error>>)
    ELSE llm.result

\* conversation_analyzer.py 173-220: extract_architecture.  The outcome is
\* the parsed extraction, or an error at the call or in parsing.
extract_architecture(msgs, llm) ==
    IF llm.kind \in ErrorKinds
    THEN ArchitectureExtraction(<<>>, <<>>,
                                <<"Error during extraction: ", llm.error>>)
    ELSE llm.result

----------------------------------------------------------------------------
(* Settings (config.py) and the tables.                                    *)

TECHNICAL_CONFIDENCE_THRESHOLD == 70
CONVERSATION_TIME_WINDOW_MINUTES == 10

MaxConversations == 2
MaxMessages == 3
MaxDiagrams == 3
MaxModifications == 2
MaxTime == 15
TickMinutes == 5

Callers == {"c1", "c2"}
Idle == [pc |-> "idle"]

Conversation(platform, channel_id, thread_id) ==
    [platform |-> platform, channel_id |-> channel_id, thread_id |-> thread_id]

Message(conversation_id, content, analysis, timestamp) ==
    [conversation_id |-> conversation_id, content |-> content,
     is_technical |-> analysis.is_technical,
     confidence_score |-> analysis.confidence_score,
     timestamp |-> timestamp]

Diagram(conversation_id, plantuml_code, drawio_xml, version, cc, rc, png_url) ==
    [conversation_id |-> conversation_id, plantuml_code |-> plantuml_code,
     drawio_xml |-> drawio_xml, version |-> version, components_count |-> cc,
     relationships_count |-> rc, png_url |-> png_url]

Modification(diagram_id, request, success, error_message) ==
    [diagram_id |-> diagram_id, request |-> request, success |-> success,
     error_message |-> error_message]

\* Python truthiness of an Optional[str]
Truthy(v) == v # None /\ v # ""

\* The event loop of a server process runs one task at a time and a task
\* gives way only at an await that suspends.  get_or_create_conversation
\* has none between query.first() and commit(), so a caller between the
\* two holds its process; callers served by another process do not wait.
InSyncSection(c) == call[c].pc = "goc_insert"
CanRun(c) == \A d \in Callers \ {c} : proc[d] = proc[c] => ~InSyncSection(d)

InFlight(pcs) == Cardinality({d \in Callers : call[d].pc \in pcs})

----------------------------------------------------------------------------
(* ConversationService (conversation_service.py).                          *)

\* conversation_service.py 60-67: the filters of get_or_create_conversation
conversation_matches(row, platform, channel_id, thread_id) ==
    /\ row.platform = platform
    /\ (Truthy(channel_id) => row.channel_id = channel_id)
    /\ (Truthy(thread_id) => row.thread_id = thread_id)

matching_conversations(platform, channel_id, thread_id) ==
    {i \in 1..Len(conversations) :
        conversation_matches(conversations[i], platform, channel_id, thread_id)}

\* conversation_service.py 43-50: get_conversation; 0 for None
get_conversation(conversation_id) ==
    IF conversation_id \in 1..Len(conversations) THEN conversation_id ELSE 0

\* conversation_service.py 146-161: get_technical_messages, over table msgs
\* at time t.  Rows are inserted in timestamp order.
get_technical_messages(msgs, conversation_id, time_window_minutes, t) ==
    LET technical ==
            SelectSeq(msgs, LAMBDA m : m.conversation_id = conversation_id
                                       /\ m.is_technical = TRUE)
    IN  IF time_window_minutes # 0
        THEN SelectSeq(technical, LAMBDA m : m.timestamp >= t - time_window_minutes)
        ELSE technical

\* A faulty should_generate_diagram: a score equal to the threshold does
\* not count.
should_generate_diagram_above_threshold(msgs, conversation_id, t) ==
    Len(SelectSeq(get_technical_messages(msgs, conversation_id,
                                         CONVERSATION_TIME_WINDOW_MINUTES, t),
                  LAMBDA m : m.confidence_score > TECHNICAL_CONFIDENCE_THRESHOLD)) >= 3

\* A faulty should_generate_diagram: the comparison with three turned round.
should_generate_diagram_inverted(msgs, conversation_id, t) ==
    LET recent_technical ==
            get_technical_messages(msgs, conversation_id,
                                   CONVERSATION_TIME_WINDOW_MINUTES, t)
        high_confidence_count ==
            Len(SelectSeq(recent_technical,
                          LAMBDA m : m.confidence_score >= TECHNICAL_CONFIDENCE_THRESHOLD))
    IN  IF recent_technical = <<>> THEN FALSE
        ELSE high_confidence_count < 3

\* conversation_service.py 163-187: should_generate_diagram
should_generate_diagram(msgs, conversation_id, t) ==
    LET recent_technical ==
            get_technical_messages(msgs, conversation_id,
                                   CONVERSATION_TIME_WINDOW_MINUTES, t)
        high_confidence_count ==
            Len(SelectSeq(recent_technical,
                          LAMBDA m : m.confidence_score >= TECHNICAL_CONFIDENCE_THRESHOLD))
    IN  IF recent_technical = <<>> THEN FALSE
        ELSE high_confidence_count >= 3

\* conversation_service.py 189-217: get_conversation_context(include_all=False)
get_conversation_context(msgs, conversation_id, t) ==
    get_technical_messages(msgs, conversation_id,
                           CONVERSATION_TIME_WINDOW_MINUTES, t)

----------------------------------------------------------------------------
(* DiagramService (diagram_service.py).                                    *)

\* diagram_service.py 80-82: get_diagram; 0 for None
get_diagram(diagram_id) ==
    IF diagram_id \in 1..Len(diagrams) THEN diagram_id ELSE 0

\* diagram_service.py 84-88: get_latest_diagram orders by version alone, so
\* A faulty get_latest_diagram: ascending order, the rows of lowest version.
latest_diagrams_ascending(conversation_id) ==
    {i \in 1..Len(diagrams) :
        /\ diagrams[i].conversation_id = conversation_id
        /\ \A j \in 1..Len(diagrams) :
              diagrams[j].conversation_id = conversation_id
                  => diagrams[j].version >= diagrams[i].version}

\* among rows of the highest version the database picks any
latest_diagrams(conversation_id) ==
    {i \in 1..Len(diagrams) :
        /\ diagrams[i].conversation_id = conversation_id
        /\ \A j \in 1..Len(diagrams) :
              diagrams[j].conversation_id = conversation_id
                  => diagrams[j].version <= diagrams[i].version}

\* What can happen to a run of the rendering tool.
RenderOutcomes ==
    {"ok", "tool_missing", "nonzero_exit", "timeout", "no_output", "fs_error"}

\* renderer.py 14-65: render_plantuml_to_png answers True only when the
\* tool exited with 0 and left its file; a missing tool, a non-zero exit, a
\* timeout and a missing file answer False; when the directory or the
\* temporary file cannot be made, the finally clause raises.
render_plantuml_to_png(outcome) ==
    CASE outcome = "ok" -> "True"
      [] outcome = "fs_error" -> "raise"
      [] OTHER -> "False"

\* diagram_service.py 218-241: the try of _render_diagram_to_png turns a
\* False and a raise alike into "no image"
render_succeeds(outcome) == render_plantuml_to_png(outcome) = "True"

\* A faulty _render_diagram_to_png: a path whatever the tool did.
render_diagram_to_png_unchecked(diagram_id, render_ok) == "/diagrams/diagram.png"

\* diagram_service.py 203-241: _render_diagram_to_png; render_ok says the
\* tool ran and left its file
render_diagram_to_png(diagram_id, render_ok) ==
    IF render_ok THEN "/diagrams/diagram.png" ELSE None

\* diagram_service.py 43-70: the row generate_diagram inserts.  g carries the
\* outcomes of the three Language Model calls and of the render.
generate_diagram_row(conversation_id, context, g, new_id) ==
    LET architecture == extract_architecture(context, g.extract) IN
    Diagram(conversation_id,
            PlantUML_generate(architecture, g.plantuml),
            Drawio_generate(architecture, g.drawio),
            1,
            Len(architecture.components),
            Len(architecture.relationships),
            render_diagram_to_png(new_id, g.render_ok))

\* A faulty modify_diagram row: the version of the original, not one more.
modify_diagram_row_same_version(original, plantuml_result, drawio_result, new_id, render_ok) ==
    Diagram(original.conversation_id, plantuml_result.code, drawio_result.xml,
            original.version, original.components_count,
            original.relationships_count,
            render_diagram_to_png(new_id, render_ok))

\* diagram_service.py 152-175: the row modify_diagram inserts
modify_diagram_row(original, plantuml_result, drawio_result, new_id, render_ok) ==
    Diagram(original.conversation_id,
            plantuml_result.code,
            drawio_result.xml,
            original.version + 1,
            original.components_count,
            original.relationships_count,
            render_diagram_to_png(new_id, render_ok))

----------------------------------------------------------------------------
(* Message ingestion: POST /messages (routes/messages.py create_message)   *)
(* and the Teams bot (bot/teams_bot.py on_message_activity), both through  *)
(* ConversationService.add_message.                                        *)

MessageCreate(content, conversation_id, platform, channel_id, thread_id) ==
    [content |-> content, conversation_id |-> conversation_id,
     platform |-> platform, channel_id |-> channel_id, thread_id |-> thread_id]

NotFound(op, route) == [op |-> op, route |-> route, status |-> 404]

\* conversation_service.py 89-105 up to the await of analyze_message.
\* A caller that finds no conversation goes on to insert one.
AddMessageBegin(c, route, data) ==
    /\ call[c].pc = "idle"
    /\ CanRun(c)
    /\ Len(messages) + InFlight({"goc_insert", "analyze"}) < MaxMessages
    /\ route = "bot" => proc[c] = "bot" /\ data.platform = "teams" /\ data.conversation_id = 0
    /\ route \in {"http", "ws"} => proc[c] = "api"
    /\ IF data.conversation_id # 0
       THEN IF get_conversation(data.conversation_id) = 0
            THEN /\ lastOp' = NotFound("create_message", route)
                 /\ UNCHANGED call
            ELSE /\ call' = [call EXCEPT ![c] =
                        [pc |-> "analyze", route |-> route, data |-> data,
                         conversation_id |-> data.conversation_id]]
                 /\ UNCHANGED lastOp
       ELSE LET found == matching_conversations(data.platform, data.channel_id,
                                                data.thread_id)
            IN  IF found # {}
                THEN /\ \E i \in found :
                          call' = [call EXCEPT ![c] =
                              [pc |-> "analyze", route |-> route, data |-> data,
                               conversation_id |-> i]]
                     /\ UNCHANGED lastOp
                ELSE /\ Len(conversations) + InFlight({"goc_insert"}) < MaxConversations
                     /\ call' = [call EXCEPT ![c] =
                            [pc |-> "goc_insert", route |-> route, data |-> data]]
                     /\ UNCHANGED lastOp
    /\ UNCHANGED <<conversations, messages, diagrams, modifications, now, proc, arch, gen>>

\* conversation_service.py 71-80: the insert of get_or_create_conversation
GetOrCreateInsert(c) ==
    /\ call[c].pc = "goc_insert"
    /\ conversations' = Append(conversations,
            Conversation(call[c].data.platform, call[c].data.channel_id,
                         call[c].data.thread_id))
    /\ call' = [call EXCEPT ![c] =
            [pc |-> "analyze", route |-> call[c].route, data |-> call[c].data,
             conversation_id |-> Len(conversations) + 1]]
    /\ UNCHANGED <<messages, diagrams, modifications, now, proc, lastOp, arch, gen>>

\* Whether the handler goes on to generate_diagram once the message is in.
\* messages.py 29-33 and 161-166 ask should_generate_diagram alone;
\* teams_bot.py 59-77
\* asks it only for a technical, high-confidence message and then needs a
\* non-empty context (teams_bot.py 288-296).
triggers_generation(route, msgs, conversation_id, analysis, t) ==
    IF route # "bot"
    THEN should_generate_diagram(msgs, conversation_id, t)
    ELSE /\ analysis.is_technical
         /\ analysis.confidence_score >= TECHNICAL_CONFIDENCE_THRESHOLD
         /\ should_generate_diagram(msgs, conversation_id, t)
         /\ get_conversation_context(msgs, conversation_id, t) # <<>>

\* The conversation the handler asks should_generate_diagram about, 0 when
\* it does not ask: the stored message's conversation for POST /messages
\* (messages.py 29-31), the conversation of the path for the websocket
\* (messages.py 161-163), and for the bot the stored message's conversation,
\* asked only after a technical message of high confidence
\* (teams_bot.py 59-66).
trigger_conversation(route, data, conversation_id, analysis) ==
    CASE route = "ws" -> data.path_id
      [] route = "bot" ->
            IF /\ analysis.is_technical
               /\ analysis.confidence_score >= TECHNICAL_CONFIDENCE_THRESHOLD
            THEN conversation_id ELSE 0
      [] OTHER -> conversation_id

\* What the handler broadcasts to the websocket clients: the websocket
\* endpoint sends the message, then the start of a generation and its
\* success or failure (messages.py 154-198); POST /messages and the bot
\* broadcast nothing.
broadcast_events(route, fires, generated) ==
    IF route = "ws"
    THEN <<"message">>
         \o (IF fires
             THEN <<"diagram_generation_started",
                    IF generated THEN "diagram_generated"
                    ELSE "diagram_generation_failed">>
             ELSE <<>>)
    ELSE <<>>

\* A faulty handler: a failed generation fails the message request.
create_message_status_propagating(fires, generated) ==
    IF fires /\ ~generated THEN 500 ELSE 200

\* messages.py 44-53, teams_bot.py 312-316: an error of generate_diagram is
\* logged and the message is answered all the same
create_message_status(fires, generated) == 200

\* What the handler did about generation, when the trigger did not fire.
NoGeneration == "None"

\* conversation_service.py 108-134, then the rest of the handler: the
\* trigger decision and, when it fires, generate_diagram.  g.commit_ok says
\* whether the database took generate_diagram's insert.
AddMessageFinish(c, llm, g) ==
    /\ call[c].pc = "analyze"
    /\ CanRun(c)
    /\ LET cid      == call[c].conversation_id
           analysis == analyze_message(call[c].data.content, <<>>, llm)
           msgs     == Append(messages, Message(cid, call[c].data.content, analysis, now))
           should   == should_generate_diagram(msgs, cid, now)
           target   == trigger_conversation(call[c].route, call[c].data, cid, analysis)
           fires    == triggers_generation(call[c].route, msgs, target, analysis, now)
       IN  /\ fires => Len(diagrams) + InFlight({"modify"}) < MaxDiagrams
           /\ messages' = msgs
           /\ diagrams' =
                 IF fires /\ g.commit_ok
                 THEN Append(diagrams,
                        generate_diagram_row(target,
                            get_conversation_context(msgs, target, now), g,
                            Len(diagrams) + 1))
                 ELSE diagrams
           /\ lastOp' = [op |-> "create_message", route |-> call[c].route,
                         status |-> create_message_status(fires, fires /\ g.commit_ok),
                         conversation_id |-> cid,
                         at |-> now, llm |-> llm.kind,
                         error |-> IF llm.kind \in ErrorKinds THEN llm.error ELSE "",
                         analysis |-> analysis, should_generate |-> should,
                         fired |-> fires,
                         evaluated_for |-> target,
                         events |-> broadcast_events(call[c].route, fires,
                                                     fires /\ g.commit_ok),
                         generation |-> IF fires THEN g ELSE NoGeneration,
                         architecture |->
                            IF fires
                            THEN extract_architecture(
                                    get_conversation_context(msgs, target, now), g.extract)
                            ELSE NoGeneration,
                         diagram_id |-> IF fires /\ g.commit_ok
                                        THEN Len(diagrams) + 1 ELSE 0]
    /\ call' = [call EXCEPT ![c] = Idle]
    /\ UNCHANGED <<conversations, modifications, now, proc, arch, gen>>

\* The clock.
Tick ==
    /\ now + TickMinutes <= MaxTime
    /\ now' = now + TickMinutes
    /\ UNCHANGED <<conversations, messages, diagrams, modifications, call, proc,
                   lastOp, arch, gen>>

----------------------------------------------------------------------------
(* Diagram routes (routes/diagrams.py) over DiagramService.                *)

\* diagrams.py 30-59: POST /diagrams/generate
GenerateRoute(conversation_id, force_regenerate, g) ==
    LET existing == latest_diagrams(conversation_id)
        context  == get_conversation_context(messages, conversation_id, now)
    IN
    /\ IF ~force_regenerate /\ existing # {}
       THEN /\ \E i \in existing :
                 lastOp' = [op |-> "generate", status |-> 200, diagram_id |-> i,
                            created |-> FALSE,
                            conversation_id |-> conversation_id,
                            force_regenerate |-> force_regenerate]
            /\ UNCHANGED diagrams
       ELSE IF context = <<>>
       THEN /\ lastOp' = [op |-> "generate", status |-> 400, diagram_id |-> 0,
                          created |-> FALSE,
                          conversation_id |-> conversation_id,
                          force_regenerate |-> force_regenerate]
            /\ UNCHANGED diagrams
       ELSE IF ~g.commit_ok
       THEN /\ lastOp' = [op |-> "generate", status |-> 500, diagram_id |-> 0,
                          created |-> FALSE,
                          conversation_id |-> conversation_id,
                          force_regenerate |-> force_regenerate]
            /\ UNCHANGED diagrams
       ELSE /\ Len(diagrams) + InFlight({"modify"}) < MaxDiagrams
            /\ diagrams' = Append(diagrams,
                    generate_diagram_row(conversation_id, context, g, Len(diagrams) + 1))
            /\ lastOp' = [op |-> "generate", status |-> 200,
                          diagram_id |-> Len(diagrams) + 1, created |-> TRUE,
                          render_ok |-> g.render_ok,
                          conversation_id |-> conversation_id,
                          force_regenerate |-> force_regenerate]
    /\ UNCHANGED <<conversations, messages, modifications, now, call, proc, arch, gen>>

\* diagram_service.py 112-116: modify_diagram loads the diagram, then awaits
\* the two modify calls
ModifyBegin(c, diagram_id, request) ==
    /\ call[c].pc = "idle"
    /\ CanRun(c)
    /\ IF get_diagram(diagram_id) = 0
       THEN /\ lastOp' = NotFound("modify", "http")
            /\ UNCHANGED call
       ELSE /\ Len(diagrams) + InFlight({"modify"}) < MaxDiagrams
            /\ Len(modifications) + InFlight({"modify"}) < MaxModifications
            /\ call' = [call EXCEPT ![c] =
                    [pc |-> "modify", diagram_id |-> diagram_id, request |-> request,
                     original_diagram |-> diagrams[diagram_id]]]
            /\ UNCHANGED lastOp
    /\ UNCHANGED <<conversations, messages, diagrams, modifications, now, proc, arch, gen>>

\* diagram_service.py 118-197: the modify calls have returned
ModifyFinish(c, plantuml_llm, drawio_llm, render_ok) ==
    /\ call[c].pc = "modify"
    /\ CanRun(c)
    /\ LET original == call[c].original_diagram
           plantuml_result == modify_plantuml(original.plantuml_code, call[c].request,
                                              plantuml_llm)
           drawio_result == modify_drawio(original.drawio_xml, call[c].request,
                                          drawio_llm)
           new_id == Len(diagrams) + 1
       IN  IF ~plantuml_result.success /\ ~drawio_result.success
           THEN /\ modifications' = Append(modifications,
                        Modification(call[c].diagram_id, call[c].request, FALSE,
                                     "Failed to modify diagram"))
                /\ UNCHANGED diagrams
                /\ lastOp' = [op |-> "modify", status |-> 200, success |-> FALSE,
                              error_message |-> "Failed to modify diagram",
                              diagram_id |-> call[c].diagram_id, new_diagram |-> 0,
                              plantuml_reply |-> plantuml_llm.kind,
                              drawio_reply |-> drawio_llm.kind]
           ELSE /\ diagrams' = Append(diagrams,
                        modify_diagram_row(original, plantuml_result, drawio_result,
                                           new_id, render_ok))
                /\ modifications' = Append(modifications,
                        Modification(new_id, call[c].request, TRUE, None))
                /\ lastOp' = [op |-> "modify", status |-> 200, success |-> TRUE,
                              error_message |-> None,
                              diagram_id |-> new_id, new_diagram |-> new_id,
                              plantuml_reply |-> plantuml_llm.kind,
                              drawio_reply |-> drawio_llm.kind,
                              render_ok |-> render_ok]
    /\ call' = [call EXCEPT ![c] = Idle]
    /\ UNCHANGED <<conversations, messages, now, proc, arch, gen>>

\* An Optional[str] argument that is None (a text has at least one line).
NoText == <<>>

\* diagram_service.py 260-279: update_diagram_code (PUT /diagrams/{id}/code)
UpdateDiagramCode(diagram_id, plantuml_code, drawio_xml, render_ok) ==
    /\ IF get_diagram(diagram_id) = 0
       THEN /\ lastOp' = NotFound("update_code", "http")
            /\ UNCHANGED diagrams
       ELSE LET d  == diagrams[diagram_id]
                d1 == IF plantuml_code # NoText
                      THEN [d EXCEPT !.plantuml_code = plantuml_code,
                                     !.png_url = IF render_ok
                                                 THEN render_diagram_to_png(diagram_id, TRUE)
                                                 ELSE d.png_url]
                      ELSE d
                d2 == IF drawio_xml # NoText
                      THEN [d1 EXCEPT !.drawio_xml = drawio_xml]
                      ELSE d1
            IN  /\ diagrams' = [diagrams EXCEPT ![diagram_id] = d2]
                /\ lastOp' = [op |-> "update_code", status |-> 200,
                              diagram_id |-> diagram_id]
    /\ UNCHANGED <<conversations, messages, modifications, now, call, proc, arch, gen>>

----------------------------------------------------------------------------
(* The state after construction: empty tables.                             *)

NoGen == [op |-> "none"]

InitTables ==
    /\ conversations = <<>>
    /\ messages = <<>>
    /\ diagrams = <<>>
    /\ modifications = <<>>
    /\ now = 0
    /\ lastOp = [op |-> "none"]

----------------------------------------------------------------------------
(* Inputs and Language Model replies the specifications draw from.         *)

PlantReply    == <<LFence, LStart, LBody("API -> DB"), LEnd, LFence>>
PlantModified == <<LStart, LBody("API -> Cache"), LEnd>>
PlantEdited   == <<LBody("edited in the editor")>>

XmlReply    == <<Open("mxfile", <<>>), Empty("diagram", <<>>), Close("mxfile")>>
XmlBroken   == <<LBody("Invalid XML content")>>
XmlModified == <<LFence, Open("mxfile", <<>>), Empty("cache", <<>>), Close("mxfile"), LFence>>
XmlEdited   == <<Open("mxfile", <<>>), Close("mxfile")>>

ExtractionReply ==
    LLMObject(ArchitectureExtraction(
        <<[type |-> "service", name |-> NameA, technologies |-> <<>>],
          [type |-> "database", name |-> NameDB, technologies |-> <<"postgres">>]>>,
        <<[source |-> NameA, target |-> NameDB, relationship_type |-> "storage",
           label |-> NoLabel]>>,
        <<"ctx">>))

\* generate_diagram with every call answered, and with every call failing
GenerationOk ==
    [extract |-> ExtractionReply, plantuml |-> LLMText(PlantReply),
     drawio |-> LLMText(XmlReply), render_ok |-> TRUE, commit_ok |-> TRUE]
GenerationDegraded ==
    [extract |-> LLMNonJson("Expecting value"), plantuml |-> LLMRaise("timeout"),
     drawio |-> LLMText(XmlBroken), render_ok |-> FALSE, commit_ok |-> TRUE]

\* generate_diagram whose insert the database refuses (commit raises)
GenerationFailing == [GenerationOk EXCEPT !.commit_ok = FALSE]

\* generate_diagram after a failed extraction, the generators answering or not
GenerationTrials ==
    {GenerationDegraded,
     [extract |-> LLMRaise("timeout"), plantuml |-> LLMText(PlantReply),
      drawio |-> LLMText(XmlReply), render_ok |-> TRUE, commit_ok |-> TRUE],
     [extract |-> LLMBadTypes("KeyError: type"), plantuml |-> LLMText(<<LBody("API -> DB")>>),
      drawio |-> LLMRaise("timeout"), render_ok |-> TRUE, commit_ok |-> TRUE],
     [extract |-> LLMNonObject("no attribute get"), plantuml |-> LLMRaise("timeout"),
      drawio |-> LLMRaise("timeout"), render_ok |-> FALSE, commit_ok |-> TRUE],
     GenerationFailing}

PlantModifyOutcomes == {LLMRaise("timeout"), LLMText(PlantModified)}
XmlModifyOutcomes   == {LLMRaise("timeout"), LLMText(XmlModified)}

TechnicalReply ==
    LLMObject([is_technical |-> TRUE, confidence_score |-> 90,
               reasoning |-> "architecture"])

WebKey == MessageCreate("hello", 0, "web", "ch1", None)
TeamsKey == MessageCreate("hello", 0, "teams", "ch1", "th1")
\* an id no row has
UnknownId == MaxConversations + MaxDiagrams + 1

InitService ==
    /\ InitTables
    /\ call = [c \in Callers |-> Idle]
    /\ arch = EmptyExtraction
    /\ gen = NoGen

----------------------------------------------------------------------------
(* Spec: one server process; messages, generations, modifications and      *)
(* direct code updates on the diagrams of a conversation.                  *)

Init ==
    /\ InitService
    /\ proc = [c \in Callers |-> "api"]

EditorInputs ==
    {[plantuml_code |-> PlantEdited, drawio_xml |-> XmlEdited],
     [plantuml_code |-> NoText, drawio_xml |-> NoText]}

MessageInputs ==
    {WebKey, [WebKey EXCEPT !.conversation_id = 1],
     [WebKey EXCEPT !.conversation_id = UnknownId]}

Next ==
    \/ \E data \in MessageInputs : AddMessageBegin("c1", "http", data)
    \/ \E c \in Callers : GetOrCreateInsert(c)
    \/ \E c \in Callers : AddMessageFinish(c, TechnicalReply, GenerationOk)
    \/ \E cid \in {1, UnknownId}, force \in BOOLEAN :
            GenerateRoute(cid, force, GenerationOk)
    \/ \E c \in Callers, id \in (1..MaxDiagrams) \cup {UnknownId} :
            ModifyBegin(c, id, "add a cache")
    \/ \E c \in Callers, p \in PlantModifyOutcomes, x \in XmlModifyOutcomes :
            ModifyFinish(c, p, x, p.kind = "text")
    \/ \E id \in {1, UnknownId}, e \in EditorInputs :
            UpdateDiagramCode(id, e.plantuml_code, e.drawio_xml, FALSE)

Spec == Init /\ [][Next]_vars

----------------------------------------------------------------------------
(* Properties of the diagram versions, under Spec.                         *)

diagram_rows(cid) ==
    {i \in 1..Len(diagrams) : diagrams[i].conversation_id = cid}

\* the rows a successful modification created; the others were generated
modified_rows(cid) ==
    {i \in diagram_rows(cid) :
        \E k \in 1..Len(modifications) :
            modifications[k].success /\ modifications[k].diagram_id = i}

generated_rows(cid) == diagram_rows(cid) \ modified_rows(cid)

\* C1: a lineage (the diagrams of a conversation that was generated once)
\* with N successful modifications, concurrent ones included, carries the
\* versions 1, 2, ..., N+1, each exactly once.
C1_VersionsExact ==
    \A cid \in 1..Len(conversations) :
        Cardinality(generated_rows(cid)) = 1 =>
            /\ \A i, j \in diagram_rows(cid) :
                    diagrams[i].version = diagrams[j].version => i = j
            /\ {diagrams[i].version : i \in diagram_rows(cid)}
                    = 1..(Cardinality(modified_rows(cid)) + 1)

\* C2: in every reachable state no two Diagram rows of one conversation have
\* the same version; the first row of a conversation has version 1 and
\* every later row a higher one.
C2_UniqueVersions ==
    \A i, j \in 1..Len(diagrams) :
        (i < j /\ diagrams[i].conversation_id = diagrams[j].conversation_id) =>
            /\ diagrams[i].version # diagrams[j].version
            /\ (\A k \in 1..(i - 1) :
                      diagrams[k].conversation_id # diagrams[i].conversation_id)
               => diagrams[i].version = 1 /\ diagrams[j].version > 1

\* The step in which caller c's modify_diagram returns.
ModifyReturns(c) == call[c].pc = "modify" /\ call'[c].pc = "idle"

\* C6: when exactly one of the two format modifications fails, modify_diagram
\* adds a row with the version of the modified diagram plus one, the new
\* text for the format that succeeded and, for the format that failed, the
\* source of the previous version as the call read it; neither is empty.
C6_PartialFailureCarriesForward ==
    [][\A c \in Callers :
        (/\ ModifyReturns(c)
         /\ (lastOp'.plantuml_reply = "raise") # (lastOp'.drawio_reply = "raise"))
        => LET previous == call[c].original_diagram
               new == diagrams'[Len(diagrams')]
           IN  /\ Len(diagrams') = Len(diagrams) + 1
               /\ lastOp'.success /\ lastOp'.new_diagram = Len(diagrams')
               /\ new.version = previous.version + 1
               /\ new.conversation_id = previous.conversation_id
               /\ lastOp'.plantuml_reply = "raise" =>
                      /\ new.plantuml_code = previous.plantuml_code
                      /\ new.drawio_xml = Slice1m1(XmlModified)
               /\ lastOp'.drawio_reply = "raise" =>
                      /\ new.drawio_xml = previous.drawio_xml
                      /\ new.plantuml_code = PlantModified
               /\ new.plantuml_code # <<>> /\ new.drawio_xml # <<>>]_vars

C6_Witness ==
    /\ lastOp.op = "modify" /\ lastOp.status = 200
    /\ lastOp.plantuml_reply = "raise" /\ lastOp.drawio_reply = "text"
    /\ lastOp.success
    /\ lastOp.new_diagram >= 2

\* C7: when both format modifications fail, modify_diagram adds no Diagram
\* row, records exactly one Modification with success = false and an error
\* message, and returns a result with success = false and no new diagram.
C7_BothFailRecorded ==
    [][\A c \in Callers :
        (/\ ModifyReturns(c)
         /\ lastOp'.plantuml_reply = "raise" /\ lastOp'.drawio_reply = "raise")
        => LET record == modifications'[Len(modifications')]
           IN  /\ diagrams' = diagrams
               /\ Len(modifications') = Len(modifications) + 1
               /\ SubSeq(modifications', 1, Len(modifications)) = modifications
               /\ record.success = FALSE
               /\ record.error_message \notin {None, ""}
               /\ record.diagram_id = call[c].diagram_id
               /\ lastOp'.status = 200 /\ lastOp'.success = FALSE
               /\ lastOp'.error_message \notin {None, ""}
               /\ lastOp'.new_diagram = 0]_vars

C7_Witness ==
    /\ lastOp.op = "modify" /\ lastOp.status = 200
    /\ lastOp.plantuml_reply = "raise" /\ lastOp.drawio_reply = "raise"
    /\ ~lastOp.success
    /\ diagrams # <<>> /\ modifications # <<>>

C9_ModifyAppendOnly ==
    [][\A c \in Callers :
        /\ (call[c].pc = "idle" /\ call'[c].pc = "modify") => diagrams' = diagrams
        /\ ModifyReturns(c) =>
              /\ Len(diagrams') >= Len(diagrams)
              /\ \A i \in 1..Len(diagrams) :
                    /\ diagrams'[i].plantuml_code = diagrams[i].plantuml_code
                    /\ diagrams'[i].drawio_xml = diagrams[i].drawio_xml
                    /\ diagrams'[i].version = diagrams[i].version
                    /\ diagrams'[i].components_count = diagrams[i].components_count
                    /\ diagrams'[i].relationships_count = diagrams[i].relationships_count
                    /\ diagrams'[i].conversation_id = diagrams[i].conversation_id
              /\ lastOp'.success =>
                    /\ Len(diagrams') = Len(diagrams) + 1
                    /\ diagrams'[Len(diagrams')].version
                           = diagrams[call[c].diagram_id].version + 1
              /\ ~lastOp'.success => Len(diagrams') = Len(diagrams)]_vars

C9_Witness ==
    /\ lastOp.op = "modify" /\ lastOp.status = 200 /\ lastOp.success
    /\ lastOp.plantuml_reply = "text" /\ lastOp.drawio_reply = "text"
    /\ lastOp.new_diagram = 3
    /\ diagrams[3].version = diagrams[2].version + 1

----------------------------------------------------------------------------
(* SpecTrigger: one caller posts messages that the classifier answers in   *)
(* every way, while the clock moves.                                       *)

AnalysisReplies ==
    {LLMRaise("provider error"), LLMRaise("timeout"), LLMRaise(""),
     LLMNonJson("Expecting value"), LLMNonObject("no attribute get"),
     LLMBadTypes("validation error"),
     LLMObject([is_technical |-> TRUE, confidence_score |-> 90, reasoning |-> "architecture"]),
     LLMObject([is_technical |-> TRUE, confidence_score |-> 70, reasoning |-> "architecture"]),
     LLMObject([is_technical |-> TRUE, confidence_score |-> 65, reasoning |-> "maybe"]),
     LLMObject([is_technical |-> FALSE, confidence_score |-> 90, reasoning |-> "lunch"]),
     LLMObject([is_technical |-> TRUE])}

NextTrigger ==
    \/ \E data \in {WebKey, [WebKey EXCEPT !.conversation_id = 1]} :
            AddMessageBegin("c1", "http", data)
    \/ GetOrCreateInsert("c1")
    \/ \E llm \in AnalysisReplies, g \in GenerationTrials :
            AddMessageFinish("c1", llm, g)
    \/ Tick

SpecTrigger == Init /\ [][NextTrigger]_vars

\* The messages of conversation cid that count at time t: marked technical,
\* not older than 10 minutes, confidence at least 0.7 (70 in hundredths).
counting_messages(cid, t) ==
    {i \in 1..Len(messages) :
        /\ messages[i].conversation_id = cid
        /\ messages[i].is_technical
        /\ messages[i].timestamp >= t - 10
        /\ messages[i].confidence_score >= 70}

\* C4: should_generate_diagram(c) is true if and only if at least 3 messages
\* of c are marked technical, have timestamp >= now - window (10 minutes)
\* and confidence_score >= threshold (0.7).
C4_ShouldGenerateIff ==
    (lastOp.op = "create_message" /\ lastOp.status = 200) =>
        (lastOp.should_generate
            <=> Cardinality(counting_messages(lastOp.conversation_id, lastOp.at)) >= 3)

C4_Witness ==
    /\ lastOp.op = "create_message" /\ lastOp.status = 200
    /\ lastOp.should_generate
    /\ \E i \in 1..Len(messages) : messages[i].confidence_score = 70
    /\ \E i \in 1..Len(messages) : messages[i].timestamp < lastOp.at

\* C5: when the classification call raises, times out or returns a payload
\* that is not JSON or is malformed, analyze_message returns is_technical =
\* false and confidence_score = 0 with a non-empty reasoning that carries
\* the error text, and the caller gets its answer, not an exception.
C5_FailClosed ==
    (/\ lastOp.op = "create_message" /\ lastOp.status = 200
     /\ lastOp.llm \in {"raise", "non_json", "non_object", "bad_types"})
    => /\ lastOp.analysis.is_technical = FALSE
       /\ lastOp.analysis.confidence_score = 0
       /\ str_nonempty(lastOp.analysis.reasoning)
       /\ \E i \in 1..Len(lastOp.analysis.reasoning) :
             lastOp.analysis.reasoning[i] = lastOp.error
       /\ ~lastOp.analysis.raised
       /\ messages[Len(messages)].is_technical = FALSE
       /\ messages[Len(messages)].confidence_score = 0

C5_Witness ==
    /\ lastOp.op = "create_message" /\ lastOp.status = 200
    /\ lastOp.llm = "non_json"
    /\ lastOp.error = "Expecting value"

----------------------------------------------------------------------------
(* SpecConv: the API server and the Teams bot, two processes on one        *)
(* database, receive messages of the same Teams thread.                    *)

InitConv ==
    /\ InitService
    /\ proc = [c \in Callers |-> IF c = "c1" THEN "api" ELSE "bot"]

NextConv ==
    \/ AddMessageBegin("c1", "http", TeamsKey)
    \/ AddMessageBegin("c2", "bot", TeamsKey)
    \/ \E c \in Callers : GetOrCreateInsert(c)
    \/ \E c \in Callers, llm \in {TechnicalReply, LLMRaise("timeout")} :
            AddMessageFinish(c, llm, GenerationOk)
    \/ Tick

SpecConv == InitConv /\ [][NextConv]_vars

same_key(a, b) ==
    /\ a.platform = b.platform
    /\ a.channel_id = b.channel_id
    /\ a.thread_id = b.thread_id

\* C3: callers that add a message with the same (platform, channel_id,
\* thread_id) at the same time, while no Conversation has that key, create
\* at most one Conversation row for it and all use that row.
C3_OneConversationPerKey ==
    /\ \A i, j \in 1..Len(conversations) :
          same_key(conversations[i], conversations[j]) => i = j
    /\ \A c, d \in Callers :
          (/\ call[c].pc = "analyze" /\ call[d].pc = "analyze"
           /\ same_key(call[c].data, call[d].data))
          => call[c].conversation_id = call[d].conversation_id

----------------------------------------------------------------------------
(* The generators on their own: every extraction, each fallback applied.   *)

InitGen ==
    /\ InitTables
    /\ call = <<>>
    /\ proc = <<>>
    /\ arch \in Extractions
    /\ gen = NoGen

PlantUMLFallback ==
    /\ gen' = [op |-> "plantuml_fallback", raised |-> FALSE,
               out |-> PlantUML_generate_fallback_diagram(arch)]
    /\ UNCHANGED <<conversations, messages, diagrams, modifications, now, call,
                   proc, lastOp, arch>>

DrawioFallback ==
    /\ gen' = [op |-> "drawio_fallback", raised |-> FALSE,
               out |-> Drawio_generate_fallback_diagram(arch)]
    /\ UNCHANGED <<conversations, messages, diagrams, modifications, now, call,
                   proc, lastOp, arch>>

NextGen == PlantUMLFallback \/ DrawioFallback

SpecGen == InitGen /\ [][NextGen]_vars

\* C10: for every extraction, the empty one included, the PlantUML fallback
\* output passes validate_plantuml, the Draw.io fallback output passes
\* validate_drawio_xml, and neither fallback raises.
C10_FallbackValid ==
    /\ gen.op = "plantuml_fallback" => ~gen.raised /\ validate_plantuml(gen.out)
    /\ gen.op = "drawio_fallback" => ~gen.raised /\ validate_drawio_xml(gen.out)

\* Whether both ends of a relationship name a component of the extraction.
resolves(architecture, rel) ==
    /\ \E i \in 1..Len(architecture.components) :
          architecture.components[i].name = rel.source
    /\ \E i \in 1..Len(architecture.components) :
          architecture.components[i].name = rel.target

is_edge_cell(token) ==
    /\ token.k = "open" /\ token.tag = "mxCell"
    /\ \E j \in 1..Len(token.attrs) : token.attrs[j][1] = "edge"

\* C11: in the fallback output of each format, a relationship whose source
\* or target names no component of the extraction is not rendered and
\* raises no error: the output has as many relationship lines (PlantUML)
\* or edge cells (Draw.io) as the extraction has resolved relationships.
C11_UnresolvedNeverRendered ==
    LET resolved == Len(SelectSeq(arch.relationships,
                                  LAMBDA rel : resolves(arch, rel)))
    IN  /\ gen.op = "plantuml_fallback" =>
              /\ ~gen.raised
              /\ Len(SelectSeq(gen.out, LAMBDA l : l.k = "rel")) = resolved
        /\ gen.op = "drawio_fallback" =>
              /\ ~gen.raised
              /\ Len(SelectSeq(gen.out, is_edge_cell)) = resolved

----------------------------------------------------------------------------
(* SpecPrimary: the two generators' generate, for small extractions and    *)
(* every kind of Language Model outcome.                                   *)

MaxPrimaryComponents == 2

PrimaryExtractions ==
    { ArchitectureExtraction(cs, rs, <<"ctx">>) :
        cs \in SeqsUpTo(ComponentPool, MaxPrimaryComponents),
        rs \in SeqsUpTo(RelationshipPool, MaxRelationships) }

PlantBody == LBody("API -> DB")

PlantReplies ==
    {LLMRaise("timeout"),
     LLMText(PlantReply),
     LLMText(<<LStart, PlantBody, LEnd>>),
     LLMText(<<PlantBody>>),
     LLMText(<<LStart, PlantBody>>),
     LLMText(<<PlantBody, LEnd>>),
     LLMText(<<LBlank, LFence, LStart, PlantBody, LEnd, LBlank, LFence, LBlank>>),
     LLMText(<<LFence, PlantBody, LFence>>),
     LLMText(<<LFence, LFence>>),
     LLMText(EmptyText)}

XmlReplies ==
    {LLMRaise("timeout"),
     LLMText(XmlReply),
     LLMText(XmlModified),
     LLMText(XmlBroken),
     LLMText(<<Open("mxfile", <<>>), Open("diagram", <<>>), Close("mxfile")>>),
     LLMText(<<LFence, LFence>>),
     LLMText(EmptyText)}

InitPrimary ==
    /\ InitTables
    /\ call = <<>>
    /\ proc = <<>>
    /\ arch \in PrimaryExtractions
    /\ gen = NoGen

PlantUMLGenerate(llm) ==
    /\ gen' = [op |-> "plantuml_generate", raised |-> FALSE, llm |-> llm,
               out |-> PlantUML_generate(arch, llm)]
    /\ UNCHANGED <<conversations, messages, diagrams, modifications, now, call,
                   proc, lastOp, arch>>

DrawioGenerate(llm) ==
    /\ gen' = [op |-> "drawio_generate", raised |-> FALSE, llm |-> llm,
               out |-> Drawio_generate(arch, llm)]
    /\ UNCHANGED <<conversations, messages, diagrams, modifications, now, call,
                   proc, lastOp, arch>>

\* renderer.py 122-162: _create_placeholder_image answers True when the
\* image with its label was saved, False when drawing or saving failed
create_placeholder_image(placeholder_ok) ==
    IF placeholder_ok
    THEN [returned |-> "True", image |-> "placeholder: Draw.io Diagram"]
    ELSE [returned |-> "False", image |-> None]

\* renderer.py 67-120: render_drawio_to_png for one outcome of the drawio
\* tool.  A run that exits with 0 and leaves its file answers True;
\* FileNotFoundError is caught at the call and, like a non-zero exit or a
\* missing file, goes on to the placeholder; TimeoutExpired is not caught
\* there and reaches the outer except, which answers False; when the
\* directory or the temporary file cannot be made, the finally clause
\* raises.
render_drawio_to_png(outcome, placeholder_ok) ==
    CASE outcome = "ok" -> [returned |-> "True", image |-> "drawio export"]
      [] outcome = "timeout" -> [returned |-> "False", image |-> None]
      [] outcome = "fs_error" -> [returned |-> "raise", image |-> None]
      [] OTHER -> create_placeholder_image(placeholder_ok)

\* render_drawio_to_png applied to the markup DrawioGenerator.generate
\* returned
RenderDrawioToPng(outcome, placeholder_ok) ==
    /\ gen.op = "drawio_generate"
    /\ gen' = [op |-> "render_drawio", raised |-> FALSE, llm |-> gen.llm,
               out |-> gen.out, tool |-> outcome, placeholder_ok |-> placeholder_ok,
               render |-> render_drawio_to_png(outcome, placeholder_ok)]
    /\ UNCHANGED <<conversations, messages, diagrams, modifications, now, call,
                   proc, lastOp, arch>>

NextPrimary ==
    \/ \E llm \in PlantReplies : PlantUMLGenerate(llm)
    \/ \E llm \in XmlReplies : DrawioGenerate(llm)
    \/ \E outcome \in RenderOutcomes, placeholder_ok \in BOOLEAN :
            RenderDrawioToPng(outcome, placeholder_ok)

SpecPrimary == InitPrimary /\ [][NextPrimary]_vars

\* The response without surrounding blank lines and, when it starts with a
\* fence line, without its first and last line.
fence_stripped(content) ==
    IF Head(strip(content)) = LFence
    THEN (IF Len(strip(content)) <= 2 THEN EmptyText
          ELSE SubSeq(strip(content), 2, Len(strip(content)) - 1))
    ELSE strip(content)

last_line(t) == strip(t)[Len(strip(t))]

\* C12: DrawioGenerator.generate returns well-formed markup for every
\* extraction and every outcome of the call; when the call raises, or its
\* fence-stripped output is not well-formed, what it returns is the
\* fallback output.
C12_DrawioGenerateWellFormed ==
    gen.op = "drawio_generate" =>
        /\ ~gen.raised
        /\ validate_drawio_xml(gen.out)
        /\ gen.llm.kind = "raise" => gen.out = Drawio_generate_fallback_diagram(arch)
        /\ (gen.llm.kind = "text" /\ ~validate_drawio_xml(fence_stripped(gen.llm.content)))
              => gen.out = Drawio_generate_fallback_diagram(arch)

\* C13: when the call succeeds, PlantUMLGenerator.generate returns the
\* fence-stripped response with @startuml put in front when it does not
\* begin with it and @enduml put behind when it does not end with it (blank
\* lines aside); the result begins with @startuml, ends with @enduml, and
\* has no fence line when the response was wrapped in a fence.
C13_MarkersEnforced ==
    (gen.op = "plantuml_generate" /\ gen.llm.kind = "text") =>
        LET body == fence_stripped(gen.llm.content)
        IN  /\ ~gen.raised
            /\ Head(gen.out) = LStart
            /\ last_line(gen.out) = LEnd
            /\ gen.out = (IF Head(body) = LStart THEN <<>> ELSE <<LStart>>)
                         \o body
                         \o (IF last_line(body) = LEnd THEN <<>> ELSE <<LEnd>>)
            /\ (Head(strip(gen.llm.content)) = LFence
                /\ last_line(gen.llm.content) = LFence)
               => \A i \in 1..Len(gen.out) : gen.out[i] # LFence

C13_Witness ==
    /\ gen.op = "plantuml_generate"
    /\ gen.llm = LLMText(<<LFence, PlantBody, LFence>>)
    /\ gen.out = <<LStart, PlantBody, LEnd>>

----------------------------------------------------------------------------
(* Degraded collaborators, under SpecTrigger.                              *)

\* C14: extract_architecture does not raise; on an error of the call or an
\* unparseable response it returns no components, no relationships and a
\* context that carries the error text, and generate_diagram goes on to
\* insert a Diagram row with components_count = 0 whose PlantUML and
\* Draw.io sources both pass their validity checks.
C14_EmptyExtractionStillGenerates ==
    (/\ lastOp.op = "create_message" /\ lastOp.status = 200 /\ lastOp.fired
     /\ lastOp.generation.extract.kind \in {"raise", "non_json", "non_object", "bad_types"})
    => /\ lastOp.architecture.components = <<>>
       /\ lastOp.architecture.relationships = <<>>
       /\ \E i \in 1..Len(lastOp.architecture.context) :
             lastOp.architecture.context[i] = lastOp.generation.extract.error
       /\ lastOp.generation.commit_ok =>
             /\ lastOp.diagram_id = Len(diagrams)
             /\ diagrams[lastOp.diagram_id].conversation_id = lastOp.conversation_id
             /\ diagrams[lastOp.diagram_id].components_count = 0
             /\ diagrams[lastOp.diagram_id].relationships_count = 0
             /\ validate_plantuml(diagrams[lastOp.diagram_id].plantuml_code)
             /\ validate_drawio_xml(diagrams[lastOp.diagram_id].drawio_xml)

C14_Witness ==
    /\ lastOp.op = "create_message" /\ lastOp.status = 200 /\ lastOp.fired
    /\ lastOp.generation.extract.kind = "non_json"
    /\ lastOp.generation.drawio.kind = "text"
    /\ lastOp.diagram_id = 1
    /\ diagrams[1].components_count = 0

\* C15: a message submitted to an existing conversation, or with no
\* conversation id, stores exactly one Message and is answered with
\* success, whatever the classification call does and whether or not a
\* generation the message triggers fails; after a degraded classification
\* the stored message has is_technical = false and confidence_score = 0.
C15_IngestionAlwaysSucceeds ==
    [][\A c \in Callers :
        (call[c].pc = "analyze" /\ call'[c].pc = "idle")
        => LET stored == messages'[Len(messages')]
           IN  /\ Len(messages') = Len(messages) + 1
               /\ SubSeq(messages', 1, Len(messages)) = messages
               /\ stored.conversation_id = call[c].conversation_id
               /\ stored.content = call[c].data.content
               /\ lastOp'.op = "create_message"
               /\ lastOp'.status = 200
               /\ lastOp'.llm \in {"raise", "non_json", "non_object", "bad_types"}
                     => stored.is_technical = FALSE /\ stored.confidence_score = 0]_vars

C15_Witness ==
    /\ lastOp.op = "create_message" /\ lastOp.status = 200
    /\ lastOp.fired /\ ~lastOp.generation.commit_ok
    /\ lastOp.diagram_id = 0 /\ diagrams = <<>>
    /\ Len(messages) = 3

----------------------------------------------------------------------------
(* SpecRender: generation and modification over every outcome of the      *)
(* rendering tool.                                                         *)

GenerationRendering(outcome) ==
    [GenerationOk EXCEPT !.render_ok = render_succeeds(outcome)]

NextRender ==
    \/ \E data \in MessageInputs : AddMessageBegin("c1", "http", data)
    \/ \E c \in Callers : GetOrCreateInsert(c)
    \/ \E c \in Callers, r \in RenderOutcomes :
            AddMessageFinish(c, TechnicalReply, GenerationRendering(r))
    \/ \E cid \in {1, UnknownId}, force \in BOOLEAN, r \in RenderOutcomes :
            GenerateRoute(cid, force, GenerationRendering(r))
    \/ \E c \in Callers, id \in (1..MaxDiagrams) \cup {UnknownId} :
            ModifyBegin(c, id, "add a cache")
    \/ \E c \in Callers, r \in RenderOutcomes :
            ModifyFinish(c, LLMText(PlantModified), LLMText(XmlModified),
                         render_succeeds(r))

SpecRender == Init /\ [][NextRender]_vars

\* C16: a failed render never fails generate_diagram or modify_diagram:
\* the Diagram row is created and returned all the same, with png_url
\* unset; png_url is set only when the render succeeded.
C16_RenderIsAdvisory ==
    /\ (lastOp.op = "generate" /\ lastOp.status = 200 /\ lastOp.created)
        => /\ lastOp.diagram_id = Len(diagrams)
           /\ (diagrams[lastOp.diagram_id].png_url = None) <=> ~lastOp.render_ok
    /\ (lastOp.op = "modify" /\ lastOp.status = 200 /\ lastOp.success)
        => /\ lastOp.new_diagram = Len(diagrams)
           /\ (diagrams[lastOp.new_diagram].png_url = None) <=> ~lastOp.render_ok
           /\ modifications[Len(modifications)].success
    /\ (/\ lastOp.op = "create_message" /\ lastOp.status = 200 /\ lastOp.fired
        /\ lastOp.generation.commit_ok)
        => /\ lastOp.diagram_id = Len(diagrams)
           /\ (diagrams[lastOp.diagram_id].png_url = None)
                 <=> ~lastOp.generation.render_ok

C16_Witness ==
    /\ lastOp.op = "modify" /\ lastOp.status = 200 /\ lastOp.success
    /\ ~lastOp.render_ok
    /\ diagrams[lastOp.new_diagram].png_url = None
    /\ \E i \in 1..Len(diagrams) :
          /\ diagrams[i].version = 1
          /\ diagrams[i].png_url = None

----------------------------------------------------------------------------
(* POST /diagrams/generate without forceRegenerate.                        *)

\* the rows of a conversation, by id
conversation_diagrams(conversation_id) ==
    {i \in 1..Len(diagrams) : diagrams[i].conversation_id = conversation_id}

\* C17: POST /diagrams/generate with forceRegenerate = false on a
\* conversation that has a Diagram inserts no row and returns the
\* conversation's latest existing version, a row of its highest version
\* number; a row is inserted only when forceRegenerate is true or the
\* conversation has no Diagram.
C17_ReturnsLatestWithoutNewRow ==
    [][(lastOp'.op = "generate" /\ (lastOp' # lastOp \/ diagrams' # diagrams))
        => LET had == conversation_diagrams(lastOp'.conversation_id)
           IN  /\ (~lastOp'.force_regenerate /\ had # {})
                    => /\ diagrams' = diagrams
                       /\ lastOp'.status = 200
                       /\ lastOp'.diagram_id \in had
                       /\ \A i \in had :
                             diagrams[i].version <= diagrams[lastOp'.diagram_id].version
               /\ diagrams' # diagrams
                    => lastOp'.force_regenerate \/ had = {}]_vars

C17_Witness ==
    /\ lastOp.op = "generate" /\ lastOp.status = 200
    /\ ~lastOp.created /\ ~lastOp.force_regenerate
    /\ lastOp.diagram_id = 2
    /\ diagrams[1].version = 1 /\ diagrams[2].version = 2
    /\ diagrams[1].conversation_id = diagrams[2].conversation_id

\* C29: after any sequence of generations and modifications,
\* get_latest_diagram returns the Diagram of the conversation that was
\* created last (the row of highest id), which is then the row the
\* non-forced generate endpoint returns and the bot's modify command works
\* on.
C29_LatestIsNewest ==
    \A cid \in 1..Len(conversations) :
        conversation_diagrams(cid) # {}
        => \A i \in latest_diagrams(cid) :
              \A j \in conversation_diagrams(cid) : j <= i

----------------------------------------------------------------------------
(* Unknown conversation and diagram ids.                                   *)

\* C18: an operation given a conversation id or a diagram id that no row
\* carries reports not-found (404) and leaves the Conversations, Messages,
\* Diagrams and Modifications as they were.
C18_UnknownIdNotFound ==
    [][lastOp' # lastOp
        => /\ (/\ lastOp'.op = "generate"
               /\ lastOp'.conversation_id \notin 1..Len(conversations))
                 => lastOp'.status = 404
           /\ (\/ lastOp'.status = 404
               \/ /\ lastOp'.op = "generate"
                  /\ lastOp'.conversation_id \notin 1..Len(conversations))
                 => UNCHANGED <<conversations, messages, diagrams, modifications>>]_vars

----------------------------------------------------------------------------
(* The Modification record of a modify attempt.                            *)

\* C19: every modify attempt on an existing diagram adds exactly one
\* Modification record that carries the request text and the outcome; the
\* record references the new Diagram row when the attempt succeeded and no
\* diagram (null, here 0: ids start at 1) when it failed.
C19_OneRecordPerAttempt ==
    [][\A c \in Callers :
        (call[c].pc = "modify" /\ call'[c].pc = "idle")
        => LET record == modifications'[Len(modifications')]
           IN  /\ Len(modifications') = Len(modifications) + 1
               /\ SubSeq(modifications', 1, Len(modifications)) = modifications
               /\ record.request = call[c].request
               /\ record.success = lastOp'.success
               /\ record.success
                    => /\ Len(diagrams') = Len(diagrams) + 1
                       /\ record.diagram_id = Len(diagrams')
               /\ ~record.success
                    => /\ diagrams' = diagrams
                       /\ record.error_message # None
                       /\ record.diagram_id = 0]_vars

----------------------------------------------------------------------------
(* SpecEvaluate: should_generate_diagram evaluated on its own, as the      *)
(* websocket endpoint does for the conversation of its path                *)
(* (messages.py 160-163), while messages arrive and the clock runs.        *)

\* conversation_service.py 163-187 called at time now; nothing is written
ShouldGenerateDiagram(conversation_id) ==
    /\ lastOp' = [op |-> "should_generate", conversation_id |-> conversation_id,
                  at |-> now,
                  answer |-> should_generate_diagram(messages, conversation_id, now)]
    /\ UNCHANGED <<conversations, messages, diagrams, modifications, now, call,
                   proc, arch, gen>>

NextEvaluate ==
    \/ \E data \in {WebKey, [WebKey EXCEPT !.conversation_id = 1]} :
            AddMessageBegin("c1", "http", data)
    \/ GetOrCreateInsert("c1")
    \/ AddMessageFinish("c1", TechnicalReply, GenerationOk)
    \/ Tick
    \/ \E cid \in {1, UnknownId} : ShouldGenerateDiagram(cid)

SpecEvaluate == Init /\ [][NextEvaluate]_vars

\* C20: should_generate_diagram is a function of the persisted state alone:
\* two evaluations for the same conversation with no message inserted
\* between them give the same answer, and an evaluation changes no
\* persisted state.
C20_EvaluationIdempotent ==
    [][(lastOp'.op = "should_generate" /\ lastOp' # lastOp)
        => /\ UNCHANGED <<conversations, messages, diagrams, modifications>>
           /\ (/\ lastOp.op = "should_generate"
               /\ lastOp.conversation_id = lastOp'.conversation_id)
                 => lastOp'.answer = lastOp.answer]_vars

----------------------------------------------------------------------------
(* SpecWindow: should_generate_diagram over the message tables of one      *)
(* conversation, before and after a row is inserted, at every minute of    *)
(* the clock.                                                              *)

MaxWindowRows == 3

WindowAnalyses ==
    {TechnicalAnalysis(TRUE, 90, <<"architecture">>),
     TechnicalAnalysis(TRUE, 65, <<"maybe">>),
     TechnicalAnalysis(FALSE, 90, <<"lunch">>)}

\* Classification payloads with a score, in hundredths: inside the range
\* and outside it on either side.
ScoreReplies ==
    {TechnicalReply,
     LLMObject([is_technical |-> TRUE, confidence_score |-> 150, reasoning |-> "certain"]),
     LLMObject([is_technical |-> TRUE, confidence_score |-> 0 - 20, reasoning |-> "unsure"])}

\* conversation_service.py 115-127: the Message row add_message stores for
\* an analysis, with should_generate_diagram asked before and after
InsertMessageRow(conversation_id, analysis) ==
    /\ get_conversation(conversation_id) # 0
    /\ Len(messages) <= MaxWindowRows
    /\ messages' = Append(messages, Message(conversation_id, "hello", analysis, now))
    /\ lastOp' = [op |-> "insert", conversation_id |-> conversation_id,
                  at |-> now, analysis |-> analysis,
                  before |-> should_generate_diagram(messages, conversation_id, now),
                  after |-> should_generate_diagram(messages', conversation_id, now)]
    /\ UNCHANGED <<conversations, diagrams, modifications, now, call, proc, arch, gen>>

NextWindow ==
    \/ AddMessageBegin("c1", "http", WebKey)
    \/ GetOrCreateInsert("c1")
    \/ \E llm \in ScoreReplies : AddMessageFinish("c1", llm, GenerationOk)
    \/ \E a \in WindowAnalyses : InsertMessageRow(1, a)
    \/ Tick

SpecWindow == Init /\ [][NextWindow]_vars

\* C21: with the window fixed (both evaluations at the minute of the
\* insertion), inserting a technical message whose confidence is at least
\* the threshold never turns should_generate_diagram from true to false.
C21_TriggerMonotone ==
    (/\ lastOp.op = "insert"
     /\ lastOp.analysis.is_technical = TRUE
     /\ lastOp.analysis.confidence_score >= TECHNICAL_CONFIDENCE_THRESHOLD
     /\ lastOp.before)
    => lastOp.after

C21_Witness ==
    /\ lastOp.op = "insert"
    /\ lastOp.analysis.is_technical = TRUE
    /\ lastOp.analysis.confidence_score >= TECHNICAL_CONFIDENCE_THRESHOLD
    /\ lastOp.before /\ lastOp.after
    /\ Len(messages) = 4

\* C22: every stored Message has a confidence_score between 0.0 and 1.0
\* (0 and 100 hundredths), whatever the classification call returned, so
\* the messages the trigger counts as high-confidence have a score in that
\* range.
C22_ScoreInRange ==
    \A i \in 1..Len(messages) :
        /\ messages[i].confidence_score >= 0
        /\ messages[i].confidence_score <= 100

----------------------------------------------------------------------------
(* The Draw.io image, under SpecPrimary.                                   *)

\* C23: when the drawio tool is missing, exits with a non-zero status,
\* leaves no output file or times out, render_drawio_to_png does not fail:
\* a placeholder image with a descriptive label is written and the render
\* reports success (given that the placeholder itself can be drawn and
\* saved).
C23_PlaceholderOnToolFailure ==
    (/\ gen.op = "render_drawio"
     /\ gen.tool \in {"tool_missing", "nonzero_exit", "no_output", "timeout"}
     /\ gen.placeholder_ok)
    => /\ gen.render.returned = "True"
       /\ gen.render.image = "placeholder: Draw.io Diagram"

----------------------------------------------------------------------------
(* SpecLive: the three ingestion paths side by side: POST /messages, the   *)
(* websocket endpoint /ws/{conversation_id} and the Teams bot.             *)

\* messages.py 132-152: a message received on the websocket of the
\* conversation path_id
WsMessage(data, path_id) ==
    [content |-> data.content, conversation_id |-> data.conversation_id,
     platform |-> data.platform, channel_id |-> data.channel_id,
     thread_id |-> data.thread_id, path_id |-> path_id]

LiveReplies ==
    {TechnicalReply,
     LLMObject([is_technical |-> FALSE, confidence_score |-> 90, reasoning |-> "lunch"])}

NextLive ==
    \/ \E data \in {WebKey, [WebKey EXCEPT !.thread_id = "th1"]} :
            AddMessageBegin("c1", "http", data)
    \/ \E data \in {WebKey, [WebKey EXCEPT !.channel_id = "ch2"]},
          path_id \in 1..MaxConversations :
            AddMessageBegin("c1", "ws", WsMessage(data, path_id))
    \/ AddMessageBegin("c2", "bot", TeamsKey)
    \/ \E c \in Callers : GetOrCreateInsert(c)
    \/ \E c \in Callers, llm \in LiveReplies, g \in {GenerationOk, GenerationFailing} :
            AddMessageFinish(c, llm, g)

SpecLive == InitConv /\ [][NextLive]_vars

\* C24: every inserted message is broadcast as a message event, and when
\* the insertion triggers a generation the clients are sent a
\* generation-start event followed by exactly one success or failure event.
C24_LifecycleEvents ==
    (lastOp.op = "create_message" /\ lastOp.status = 200)
    => /\ lastOp.events # <<>>
       /\ Head(lastOp.events) = "message"
       /\ lastOp.fired
            => /\ Len(lastOp.events) = 3
               /\ lastOp.events[2] = "diagram_generation_started"
               /\ lastOp.events[3] =
                     (IF lastOp.generation.commit_ok THEN "diagram_generated"
                      ELSE "diagram_generation_failed")
       /\ ~lastOp.fired => Len(lastOp.events) = 1

\* C25: after every insertion, on every path, the trigger is evaluated for
\* the conversation the message went into, and generation is started
\* exactly when should_generate_diagram is true for that conversation.
C25_TriggerReevaluated ==
    (lastOp.op = "create_message" /\ lastOp.status = 200)
    => /\ lastOp.evaluated_for = lastOp.conversation_id
       /\ lastOp.fired <=> lastOp.should_generate

----------------------------------------------------------------------------
(* SpecContext: the context add_message hands to the classification of a   *)
(* new message, over the message tables of two conversations.              *)

MaxContextRows == 7

\* conversation_service.py 136-144: get_recent_messages, the newest rows of
\* the conversation first (rows are inserted in timestamp order)
get_recent_messages(msgs, conversation_id, limit) ==
    LET rows == SelectSeq(msgs, LAMBDA m : m.conversation_id = conversation_id)
        n    == Len(rows)
        k    == IF n < limit THEN n ELSE limit
    IN  [i \in 1..k |-> rows[n + 1 - i]]

\* conversation_service.py 102-106: the contents of get_recent_messages
\* with limit=10
classification_context(msgs, conversation_id) ==
    LET recent_messages == get_recent_messages(msgs, conversation_id, 10)
    IN  [i \in 1..Len(recent_messages) |-> recent_messages[i].content]

\* conversation_analyzer.py 134: context[-5:], the last five entries of the
\* list it is given
prompt_context(context) ==
    IF Len(context) <= 5 THEN context
    ELSE SubSeq(context, Len(context) - 4, Len(context))

\* conversation_service.py 101-127: add_message on an existing
\* conversation: the prompt of the classification, then the stored row
ClassifyAndStore(conversation_id, analysis) ==
    /\ get_conversation(conversation_id) # 0
    /\ Len(messages) < MaxContextRows
    /\ LET content == ToString(Len(messages) + 1)
       IN  /\ lastOp' = [op |-> "classify", conversation_id |-> conversation_id,
                         message |-> content,
                         context |-> prompt_context(
                                        classification_context(messages, conversation_id))]
           /\ messages' = Append(messages, Message(conversation_id, content, analysis, now))
    /\ UNCHANGED <<conversations, diagrams, modifications, now, call, proc, arch, gen>>

NextContext ==
    \/ AddMessageBegin("c1", "http", WebKey)
    \/ AddMessageBegin("c2", "http", [WebKey EXCEPT !.channel_id = "ch2"])
    \/ \E c \in Callers : GetOrCreateInsert(c)
    \/ \E cid \in 1..MaxConversations :
            ClassifyAndStore(cid, TechnicalAnalysis(FALSE, 90, <<"lunch">>))

SpecContext == Init /\ [][NextContext]_vars

\* the contents stored in a conversation before the row stored last
stored_before(conversation_id) ==
    LET earlier == SubSeq(messages, 1, Len(messages) - 1)
        rows    == SelectSeq(earlier, LAMBDA m : m.conversation_id = conversation_id)
    IN  [i \in 1..Len(rows) |-> rows[i].content]

\* C26: the classification prompt of a new message holds at most 5 context
\* messages, and they are the most recent messages stored before it in the
\* same conversation.
C26_ContextMostRecentFive ==
    lastOp.op = "classify"
    => LET prior == stored_before(lastOp.conversation_id)
           n     == Len(prior)
           k     == IF n < 5 THEN n ELSE 5
       IN  /\ Len(lastOp.context) <= 5
           /\ {lastOp.context[i] : i \in 1..Len(lastOp.context)}
                = {prior[i] : i \in (n - k + 1)..n}

----------------------------------------------------------------------------
(* The grid of the Draw.io fallback, under SpecGen.                        *)

has_attr(token, name) ==
    \E j \in 1..Len(token.attrs) : token.attrs[j][1] = name

attr_value(token, name) ==
    LET j == CHOOSE j \in 1..Len(token.attrs) : token.attrs[j][1] = name
    IN  token.attrs[j][2]

\* the vertex cells of a document with the geometry element that follows
\* each of them, in document order
vertex_rectangles(out) ==
    LET at == SelectSeq([i \in 1..Len(out) |-> i],
                        LAMBDA i : /\ out[i].k = "open" /\ out[i].tag = "mxCell"
                                   /\ has_attr(out[i], "vertex"))
    IN  [n \in 1..Len(at) |->
            [id |-> attr_value(out[at[n]], "id"),
             x |-> attr_value(out[at[n] + 1], "x").n,
             y |-> attr_value(out[at[n] + 1], "y").n,
             w |-> attr_value(out[at[n] + 1], "width").n,
             h |-> attr_value(out[at[n] + 1], "height").n]]

rectangles_overlap(a, b) ==
    /\ a.x < b.x + b.w /\ b.x < a.x + a.w
    /\ a.y < b.y + b.h /\ b.y < a.y + a.h

\* C27: the Draw.io fallback gives the component at index i (from 0) an
\* identifier of its own and the grid cell of column i mod 3 and row
\* i div 3 at the fixed spacing; the same component list gives the same
\* positions again, and no two component rectangles overlap.
C27_GridLayout ==
    gen.op = "drawio_fallback"
    => LET cells == vertex_rectangles(gen.out)
       IN  /\ Len(cells) = Len(arch.components)
           /\ \A n \in 1..Len(cells) :
                 /\ cells[n].x = x_offset + ((n - 1) % 3) * spacing
                 /\ cells[n].y = y_offset + ((n - 1) \div 3) * spacing
                 /\ cells[n].w = width /\ cells[n].h = height
           /\ \A m, n \in 1..Len(cells) :
                 m # n => /\ cells[m].id # cells[n].id
                          /\ ~rectangles_overlap(cells[m], cells[n])
           /\ vertex_rectangles(Drawio_generate_fallback_diagram(arch)) = cells

C27_Witness ==
    /\ gen.op = "drawio_fallback"
    /\ Len(arch.components) = 4
    /\ arch.components[1].name = arch.components[4].name
    /\ vertex_rectangles(gen.out)[4].x = 100
    /\ vertex_rectangles(gen.out)[4].y = 300

----------------------------------------------------------------------------
(* The conversation a message without a conversation id goes to, under     *)
(* SpecLive.                                                               *)

\* C28: get_or_create_conversation(platform, channel_id, thread_id) returns
\* a Conversation whose platform, channel_id and thread_id are the
\* requested ones, also when channel_id or thread_id is absent, so a
\* message submitted without a conversation id is not attached to a
\* conversation of another channel or thread.
C28_ReturnedKeyIsRequestedKey ==
    \A c \in Callers :
        (call[c].pc = "analyze" /\ call[c].data.conversation_id = 0)
        => LET conversation == conversations[call[c].conversation_id]
           IN  /\ conversation.platform = call[c].data.platform
               /\ conversation.channel_id = call[c].data.channel_id
               /\ conversation.thread_id = call[c].data.thread_id

----------------------------------------------------------------------------
(* The sources of the persisted diagrams.                                  *)

\* C30: in every reachable state each persisted Diagram has a
\* plantuml_code that passes validate_plantuml and a drawio_xml that
\* passes validate_drawio_xml, whether a generation, a modification or a
\* direct code update wrote it last.
C30_PersistedSourcesValid ==
    \A i \in 1..Len(diagrams) :
        /\ validate_plantuml(diagrams[i].plantuml_code)
        /\ validate_drawio_xml(diagrams[i].drawio_xml)

====
